---- MODULE Spec2Model ----
(***************************************************************************)
(* The sketch-classifier service of the repository                         *)
(* (Augmented-Reality--Image-Detector-Final-Project-): the preprocessing   *)
(* functions of utils.py, SketchClassifier of model.py and the request     *)
(* handlers of main.py; and the object-detector service                    *)
(* (vr-3d-object-detector/app): its lifespan and its handlers; and the     *)
(* log viewer view_logs.py.                                                *)
(*                                                                         *)
(* Every function is an operator computed as the code computes it.  What   *)
(* the code leaves to a library or to the build (the resampling filter,    *)
(* the order np.argsort gives equal keys, the float -> uint8 cast of an    *)
(* out-of-range sample) is a parameter of the operator, and the action     *)
(* that calls it draws the parameter from the set of possible outcomes.    *)
(*                                                                         *)
(* Sample values are fixed-point numbers: the integer u stands for the     *)
(* real u / UNIT, UNIT = 255 * 255, so that an integer sample, a sample    *)
(* k/255 and one more division by 255 are all exact.                       *)
(***************************************************************************)
EXTENDS Integers, Sequences, FiniteSets

\* classifier, started: the global of main.py and whether startup has run
\* detector, lifespan_entered: the global of the detector's main.py and
\*         whether its lifespan has been entered
\* clock: the reading datetime.now() gives, in microseconds
\* api_logs: the names of the files under LOG_DIR
\* call: the call in progress, with its arguments
\* ret: what the call returned or raised
\* locals: values the call held on the way (the text handed to b64decode,
\*         the canvas before the resize, ...)
VARIABLES classifier, started, detector, lifespan_entered, clock, api_logs,
          call, ret, locals

vars == <<classifier, started, detector, lifespan_entered, clock, api_logs,
          call, ret, locals>>

\* the globals of the two processes and the log directory
globals == <<classifier, started, detector, lifespan_entered, clock, api_logs>>

(***************************************************************************)
(* Bounds of the model.                                                    *)
(***************************************************************************)
\* samples tracked per raster (the raster's content is these samples)
NPix == 2
\* highest rank of an input array
MaxRank == 5
\* longest base64 text, in tokens
MaxStr == 4
\* most strokes of a drawing, most points of a drawing
MaxStrokes == 2
MaxPts == 3
\* most outputs of the model, and the sum of a probability vector (1.0)
MaxN == 3
PTotal == 3
\* most rows of a batch handed to predict_batch
MaxBatch == 1
\* the last tick of the system clock, and the ticks in one microsecond
MaxClock == 2
TicksPerMicro == 2
\* most boxes one YOLO model finds in an image
MaxBoxes == 2

(***************************************************************************)
(* Program constants.                                                      *)
(***************************************************************************)
\* utils.py: the target width and height, and the largest 8-bit sample
TargetSize == 28
PixMax == 255
\* utils.py _interpolate_points: num_points
NumPoints == 10

UNIT == PixMax * PixMax

Min(a, b) == IF a <= b THEN a ELSE b
Max(a, b) == IF a >= b THEN a ELSE b

Reverse(s) == [i \in 1..Len(s) |-> s[Len(s) + 1 - i]]

\* Python's s[:k]
SliceTo(s, k) ==
  IF k >= 0 THEN SubSeq(s, 1, Min(k, Len(s)))
  ELSE SubSeq(s, 1, Max(Len(s) + k, 0))

\* Python's s[k:]
SliceFrom(s, k) == SubSeq(s, k + 1, Len(s))

SeqsUpTo(S, n) == UNION {[1..m -> S] : m \in 0..n}

RECURSIVE Product(_)
Product(s) == IF s = <<>> THEN 1 ELSE Head(s) * Product(Tail(s))

RECURSIVE Flatten(_)
Flatten(ss) == IF ss = <<>> THEN <<>> ELSE Head(ss) \o Flatten(Tail(ss))

Range(s) == {s[i] : i \in 1..Len(s)}

(***************************************************************************)
(* Exceptions and results.  An exception is the chain of its messages,     *)
(* outermost first: raise ValueError(f"...: {str(e)}") puts the text of    *)
(* the cause after its own.                                                *)
(***************************************************************************)
NoTensor == [shape |-> <<>>, px |-> <<>>]

Frame(type, msg) == [type |-> type, msg |-> msg]

Raised(chain) == [ok |-> FALSE, val |-> NoTensor, exc |-> chain]

Returned(v) == [ok |-> TRUE, val |-> v, exc |-> <<>>]

\* the wrapper without the text of the cause: raise ValueError("<msg>")
Rewrap_NoCause(msg, r) ==
  IF r.ok THEN r ELSE Raised(<<Frame("ValueError", msg)>>)

\* except Exception as e: raise ValueError(f"<msg>: {str(e)}")
Rewrap(msg, r) ==
  IF r.ok THEN r ELSE Raised(<<Frame("ValueError", msg)>> \o r.exc)

(***************************************************************************)
(* PIL and numpy.                                                          *)
(***************************************************************************)
\* the levels a resampled 8-bit sample is drawn from
PixelLevels == {0, PixMax}

IsConstant(px) == \A i, j \in 1..Len(px) : px[i] = px[j]

\* Image.resize((28, 28), LANCZOS) of an 8-bit image: every output sample
\* is a normalised weighted sum of input samples clipped to 0..255, so a
\* constant image stays the same constant; of any other image the samples
\* are some 8-bit levels.
ResizeOutcomes(px) ==
  {px} \cup (IF IsConstant(px) THEN {} ELSE [1..Len(px) -> PixelLevels])

\* the float -> uint8 cast of out-of-range samples, as the build does it
CastModes == {"wrap", "saturate"}

\* astype(np.float32) keeps a sample as it is: the rounding of float32 is
\* not modelled.
\* astype(np.uint8) of one float sample u (in 1/UNIT): truncation toward
\* zero; a truncated value outside 0..255 wraps modulo 256 or saturates.
AsUint8(u, mode) ==
  LET t == IF u >= 0 THEN u \div UNIT ELSE 0 - ((0 - u) \div UNIT)
  IN  IF t \in 0..PixMax THEN t
      ELSE IF mode = "wrap" THEN t % (PixMax + 1)
      ELSE IF t < 0 THEN 0 ELSE PixMax

\* np.array(image, dtype=np.float32) of an 8-bit sample
AsFloat(b) == b * UNIT

\* x / 255.0
DivPixMax(u) == u \div PixMax

SeqMax(s) == CHOOSE m \in Range(s) : \A x \in Range(s) : x <= m

\* 0.299 * R + 0.587 * G + 0.114 * B, the weights in thousandths
Luma(rgb) ==
  LET q(u) == u \div 1000
      r(u) == u % 1000
  IN  299 * q(rgb[1]) + 587 * q(rgb[2]) + 114 * q(rgb[3])
      + (299 * r(rgb[1]) + 587 * r(rgb[2]) + 114 * r(rgb[3])) \div 1000

\* ndarray.reshape(1, 28, 28, 1): the element count must be 28 * 28
ReshapeShape == <<1, TargetSize, TargetSize, 1>>

\* the reshape without the batch dimension: reshape(28, 28, 1)
Reshape_NoBatch(a) ==
  IF Product(a.shape) = TargetSize * TargetSize
  THEN Returned([shape |-> <<TargetSize, TargetSize, 1>>, px |-> a.px])
  ELSE Raised(<<Frame("ValueError", "cannot reshape array")>>)

Reshape(a) ==
  IF Product(a.shape) = TargetSize * TargetSize
  THEN Returned([shape |-> ReshapeShape, px |-> a.px])
  ELSE Raised(<<Frame("ValueError", "cannot reshape array")>>)

(***************************************************************************)
(* utils.py preprocess_image_from_array.  An array is its shape and its    *)
(* tracked samples (of the first image of a batch); a sample of an array   *)
(* with three channels is the triple <<R, G, B>>.                          *)
(***************************************************************************)
\* lines 92-104: the first image of a batch, then luma or squeeze
DropBatch(a) ==
  IF Len(a.shape) = 4 THEN [a EXCEPT !.shape = Tail(a.shape)] ELSE a

\* the collapse that takes the first channel of any other channel count
CollapseChannels_AnyCount(a) ==
  IF Len(a.shape) = 3
  THEN IF a.shape[3] = 3
       THEN [shape |-> SubSeq(a.shape, 1, 2),
             px |-> [i \in 1..Len(a.px) |-> Luma(a.px[i])]]
       ELSE [a EXCEPT !.shape = SubSeq(a.shape, 1, 2)]
  ELSE a

CollapseChannels(a) ==
  IF Len(a.shape) = 3
  THEN IF a.shape[3] = 3
       THEN [shape |-> SubSeq(a.shape, 1, 2),
             px |-> [i \in 1..Len(a.px) |-> Luma(a.px[i])]]
       ELSE IF a.shape[3] = 1
       THEN [a EXCEPT !.shape = SubSeq(a.shape, 1, 2)]
       ELSE a
  ELSE a

\* lines 111-114: the resize through an 8-bit PIL image; rz is the
\* resampled content, one of ResizeOutcomes of the cast samples
CastPx(px, mode) == [i \in 1..Len(px) |-> AsUint8(px[i], mode)]

ResizeIfNeeded(a, rz) ==
  IF a.shape # <<TargetSize, TargetSize>>
  THEN [shape |-> <<TargetSize, TargetSize>>,
        px |-> [i \in 1..Len(rz) |-> AsFloat(rz[i])]]
  ELSE a

\* lines 117-118
NormalizeIfNeeded(a) ==
  IF SeqMax(a.px) > UNIT
  THEN [a EXCEPT !.px = [i \in 1..Len(a.px) |-> DivPixMax(a.px[i])]]
  ELSE a

preprocess_image_from_array(image_array, rz) ==
  LET a == CollapseChannels(DropBatch(image_array))
  IN  Rewrap("Failed to process image array",
        IF Len(a.shape) # 2
        THEN Raised(<<Frame("ValueError", "Cannot process image with shape")>>)
        ELSE Reshape(NormalizeIfNeeded(ResizeIfNeeded(a, rz))))

\* the caller's array as an in-place division would leave it:
\* image_array /= 255.0 without the copy of line 89
image_array_after_InPlace(image_array) ==
  [image_array EXCEPT !.px = [i \in 1..Len(image_array.px) |->
     IF Len(image_array.shape) \in {3, 4} /\ image_array.shape[Len(image_array.shape)] = 3
     THEN <<DivPixMax(image_array.px[i][1]), DivPixMax(image_array.px[i][2]),
            DivPixMax(image_array.px[i][3])>>
     ELSE DivPixMax(image_array.px[i])]]

\* the caller's array after the call: line 89 rebinds the name to the copy
\* astype makes, and lines 94-121 bind new arrays or views of that copy
image_array_after(image_array) == image_array

\* the outcomes of the resize a call on image_array can meet
ArrayResizeOutcomes(image_array, mode) ==
  LET a == CollapseChannels(DropBatch(image_array))
  IN  IF Len(a.shape) = 2 /\ a.shape # <<TargetSize, TargetSize>>
      THEN ResizeOutcomes(CastPx(a.px, mode))
      ELSE {<<>>}

(***************************************************************************)
(* Texts and bytes.  A text is a sequence of characters; the texts the     *)
(* model feeds in are built from a few tokens.  '=' is not among the       *)
(* characters, so a text decodes only if its data characters fill whole    *)
(* groups of four.                                                         *)
(***************************************************************************)
Tokens == {"data:", ";base64", ",", "iVBO", "AAAA", "A", "!"}

Expand(tok) ==
  CASE tok = "data:" -> <<"d", "a", "t", "a", ":">>
    [] tok = ";base64" -> <<";", "b", "a", "s", "e", "6", "4">>
    [] tok = "," -> <<",">>
    [] tok = "iVBO" -> <<"i", "V", "B", "O">>
    [] tok = "AAAA" -> <<"A", "A", "A", "A">>
    [] tok = "A" -> <<"A">>
    [] tok = "!" -> <<"!">>

TextOf(toks) == Flatten([i \in 1..Len(toks) |-> Expand(toks[i])])

\* the base64 alphabet, as far as the tokens use it
B64Alphabet == {"A", "B", "O", "V", "a", "b", "d", "e", "i", "s", "t", "4", "6"}

B64Val(c) ==
  CASE c = "A" -> 0  [] c = "B" -> 1  [] c = "O" -> 14 [] c = "V" -> 21
    [] c = "a" -> 26 [] c = "b" -> 27 [] c = "d" -> 29 [] c = "e" -> 30
    [] c = "i" -> 34 [] c = "s" -> 44 [] c = "t" -> 45
    [] c = "4" -> 56 [] c = "6" -> 58

IsB64Char(c) == c \in B64Alphabet

RECURSIVE DecodeGroups(_)
DecodeGroups(d) ==
  IF Len(d) < 4 THEN <<>>
  ELSE LET n == ((B64Val(d[1]) * 64 + B64Val(d[2])) * 64 + B64Val(d[3])) * 64
                + B64Val(d[4])
       IN  <<n \div 65536, (n \div 256) % 256, n % 256>>
           \o DecodeGroups(SubSeq(d, 5, Len(d)))

\* base64.b64decode(s), validate=False: characters outside the alphabet are
\* discarded; leftover data characters are an error
b64decode(s) ==
  LET d == SelectSeq(s, IsB64Char)
  IN  IF Len(d) % 4 = 1
      THEN [ok |-> FALSE, val |-> <<>>,
            exc |-> <<Frame("binascii.Error", "Invalid base64-encoded string")>>]
      ELSE IF Len(d) % 4 # 0
      THEN [ok |-> FALSE, val |-> <<>>,
            exc |-> <<Frame("binascii.Error", "Incorrect padding")>>]
      ELSE [ok |-> TRUE, val |-> DecodeGroups(d), exc |-> <<>>]

\* the character of a 6-bit value
B64Char(v) == CHOOSE c \in B64Alphabet : B64Val(c) = v

\* base64.b64encode(b) of whole groups of three bytes (there is no '=')
RECURSIVE b64encode(_)
b64encode(b) ==
  IF Len(b) < 3 THEN <<>>
  ELSE LET n == (b[1] * 256 + b[2]) * 256 + b[3]
       IN  <<B64Char(n \div 262144), B64Char((n \div 4096) % 64),
             B64Char((n \div 64) % 64), B64Char(n % 64)>>
           \o b64encode(SubSeq(b, 4, Len(b)))

\* str.startswith
StartsWith(s, p) == Len(s) >= Len(p) /\ SubSeq(s, 1, Len(p)) = p

\* sep in s
Contains(s, sep) == \E i \in 1..Len(s) : s[i] = sep

\* s.split(sep, 1)[1], for s that holds sep
RECURSIVE AfterFirst(_, _)
AfterFirst(s, sep) ==
  IF s = <<>> THEN <<>>
  ELSE IF Head(s) = sep THEN Tail(s)
  ELSE AfterFirst(Tail(s), sep)

\* The image container PIL recognises: the first bytes of the PNG signature
\* (0x89 'P' 'N'), then the samples.
ImageMagic == <<137, 80, 78>>

\* Image.open(io.BytesIO(image_bytes))
ImageOpen(image_bytes) ==
  IF StartsWith(image_bytes, ImageMagic)
  THEN [ok |-> TRUE, val |-> SliceFrom(image_bytes, Len(ImageMagic)), exc |-> <<>>]
  ELSE [ok |-> FALSE, val |-> <<>>,
        exc |-> <<Frame("UnidentifiedImageError", "cannot identify image file")>>]

\* image.convert('L') loads the samples: none left is a truncated file;
\* the tracked samples are read off the body
ConvertL(body) ==
  IF body = <<>>
  THEN [ok |-> FALSE, val |-> <<>>,
        exc |-> <<Frame("OSError", "image file is truncated")>>]
  ELSE [ok |-> TRUE,
        val |-> [i \in 1..NPix |-> body[((i - 1) % Len(body)) + 1]],
        exc |-> <<>>]

\* lines 26-29
DecodeImage(image_bytes) ==
  LET im == ImageOpen(image_bytes)
  IN  IF im.ok THEN ConvertL(im.val) ELSE im

\* utils.py preprocess_image_from_bytes; rz is the resampled content
preprocess_image_from_bytes(image_bytes, rz) ==
  LET im == DecodeImage(image_bytes)
  IN  Rewrap("Failed to process image",
        IF ~im.ok THEN Raised(im.exc)
        ELSE Reshape([shape |-> <<TargetSize, TargetSize>>,
                      px |-> [i \in 1..Len(rz) |-> DivPixMax(AsFloat(rz[i]))]]))

BytesResizeOutcomes(image_bytes) ==
  LET im == DecodeImage(image_bytes)
  IN  IF im.ok THEN ResizeOutcomes(im.val) ELSE {<<>>}

\* the strip at any comma, whatever the text starts with
StripDataUri_AnyComma(base64_string) ==
  IF Contains(base64_string, ",")
  THEN AfterFirst(base64_string, ",")
  ELSE base64_string

\* no strip at all: the text goes to b64decode as it came
StripDataUri_Never(base64_string) == base64_string

\* lines 62-63: the text handed to b64decode
StripDataUri(base64_string) ==
  IF Contains(base64_string, ",") /\ StartsWith(base64_string, <<"d", "a", "t", "a", ":">>)
  THEN AfterFirst(base64_string, ",")
  ELSE base64_string

\* utils.py preprocess_image_from_base64
preprocess_image_from_base64(base64_string, rz) ==
  LET dec == b64decode(StripDataUri(base64_string))
  IN  Rewrap("Failed to process base64 image",
        IF ~dec.ok THEN Raised(dec.exc)
        ELSE preprocess_image_from_bytes(dec.val, rz))

Base64ResizeOutcomes(base64_string) ==
  LET dec == b64decode(StripDataUri(base64_string))
  IN  IF dec.ok THEN BytesResizeOutcomes(dec.val) ELSE {<<>>}

(***************************************************************************)
(* utils.py preprocess_stroke_data.  Coordinates are integers; an          *)
(* interpolated coordinate is kept in units of 1/num_points.  The canvas   *)
(* is np.zeros with the cells written so far.                              *)
(***************************************************************************)
\* the interpolation that stops short of the second endpoint:
\* range(num_points)
_interpolate_points_Open(x1, y1, x2, y2) ==
  [k \in 1..NumPoints |->
     <<x1 * NumPoints + (k - 1) * (x2 - x1), y1 * NumPoints + (k - 1) * (y2 - y1)>>]

\* _interpolate_points: t = i / num_points, i = 0..num_points
_interpolate_points(x1, y1, x2, y2) ==
  [k \in 1..(NumPoints + 1) |->
     <<x1 * NumPoints + (k - 1) * (x2 - x1), y1 * NumPoints + (k - 1) * (y2 - y1)>>]

CanvasAt(canvas, cell) == IF cell \in DOMAIN canvas THEN canvas[cell] ELSE 0

\* the mark that adds to the cell instead of setting it: canvas[...] += 1
MarkPoint_Add(canvas, pt, canvas_size) ==
  IF 0 <= pt[1] /\ pt[1] < canvas_size * NumPoints
     /\ 0 <= pt[2] /\ pt[2] < canvas_size * NumPoints
  THEN LET cell == <<pt[2] \div NumPoints, pt[1] \div NumPoints>>
       IN  [c \in DOMAIN canvas \cup {cell} |->
              IF c = cell THEN CanvasAt(canvas, cell) + 1 ELSE canvas[c]]
  ELSE canvas

\* lines 161-162: canvas[int(y), int(x)] = 255 for a point inside the canvas
MarkPoint(canvas, pt, canvas_size) ==
  IF 0 <= pt[1] /\ pt[1] < canvas_size * NumPoints
     /\ 0 <= pt[2] /\ pt[2] < canvas_size * NumPoints
  THEN LET cell == <<pt[2] \div NumPoints, pt[1] \div NumPoints>>
       IN  [c \in DOMAIN canvas \cup {cell} |->
              IF c = cell THEN PixMax ELSE canvas[c]]
  ELSE canvas

RECURSIVE MarkPoints(_, _, _)
MarkPoints(canvas, pts, canvas_size) ==
  IF pts = <<>> THEN canvas
  ELSE MarkPoints(MarkPoint(canvas, Head(pts), canvas_size), Tail(pts), canvas_size)

\* lines 153-162: the segments of one stroke, from index i on
RECURSIVE DrawSegments(_, _, _, _)
DrawSegments(canvas, stroke, i, canvas_size) ==
  IF i > Len(stroke) - 1 THEN canvas
  ELSE DrawSegments(
         MarkPoints(canvas,
                    _interpolate_points(stroke[i][1], stroke[i][2],
                                        stroke[i + 1][1], stroke[i + 1][2]),
                    canvas_size),
         stroke, i + 1, canvas_size)

\* the stroke drawn with a single point marked as a dot
DrawStroke_Dot(canvas, stroke, canvas_size) ==
  IF Len(stroke) < 1 THEN canvas
  ELSE IF Len(stroke) = 1
  THEN MarkPoint(canvas, <<stroke[1][1] * NumPoints, stroke[1][2] * NumPoints>>, canvas_size)
  ELSE DrawSegments(canvas, stroke, 1, canvas_size)

\* lines 148-151
DrawStroke(canvas, stroke, canvas_size) ==
  IF Len(stroke) < 2 THEN canvas
  ELSE DrawSegments(canvas, stroke, 1, canvas_size)

RECURSIVE DrawStrokes(_, _, _)
DrawStrokes(canvas, strokes, canvas_size) ==
  IF strokes = <<>> THEN canvas
  ELSE DrawStrokes(DrawStroke(canvas, Head(strokes), canvas_size),
                   Tail(strokes), canvas_size)

\* np.zeros((canvas_size, canvas_size)): no cell written
BlankCanvas == [c \in {} |-> 0]

\* lines 145-162
Rasterize(strokes, canvas_size) == DrawStrokes(BlankCanvas, strokes, canvas_size)

\* the sample values the canvas holds
CanvasValues(canvas, canvas_size) ==
  {canvas[c] : c \in DOMAIN canvas}
    \cup (IF Cardinality(DOMAIN canvas) < canvas_size * canvas_size THEN {0} ELSE {})

\* the resize of the canvas image: a constant canvas stays constant
CanvasResizeOutcomes(canvas, canvas_size) ==
  LET v == CanvasValues(canvas, canvas_size)
  IN  IF Cardinality(v) = 1 THEN {[i \in 1..NPix |-> x] : x \in v}
      ELSE [1..NPix -> PixelLevels]

\* the caller's strokes after the call: lines 148-162 only read them
strokes_after(strokes) == strokes

\* utils.py preprocess_stroke_data; rz is the resampled canvas, one of
\* CanvasResizeOutcomes of the canvas the strokes leave
preprocess_stroke_data(strokes, canvas_size, rz) ==
  LET canvas == Rasterize(strokes, canvas_size)
  IN  Rewrap("Failed to process stroke data",
        IF rz \notin CanvasResizeOutcomes(canvas, canvas_size)
        THEN Raised(<<Frame("ValueError", "resize")>>)
        ELSE Reshape([shape |-> <<TargetSize, TargetSize>>,
                      px |-> [i \in 1..Len(rz) |-> DivPixMax(AsFloat(rz[i]))]]))

(***************************************************************************)
(* The inputs.                                                             *)
(***************************************************************************)
Dims == {1, 2, 3, TargetSize}

Shapes == UNION {[1..r -> Dims] : r \in 1..MaxRank}

\* -1.0, 0, 0.2, 255 and 300
Samples == {0 - UNIT, 0, 51 * PixMax, PixMax * UNIT, 300 * UNIT}

\* grey 0.2, red 255, white 300
RGBPixels ==
  {<<51 * PixMax, 51 * PixMax, 51 * PixMax>>, <<PixMax * UNIT, 0, 0>>,
   <<300 * UNIT, 300 * UNIT, 300 * UNIT>>}

\* the rank after lines 92-104
ReducedRank(shape) == Len(CollapseChannels(DropBatch([shape |-> shape, px |-> <<>>])).shape)

\* The samples of an array of a shape: no more distinct ones than the image
\* has cells.  A shape the function rejects is rejected whatever the
\* samples, and gets one content.
ContentOf(shape) ==
  IF ReducedRank(shape) # 2 THEN {[i \in 1..NPix |-> 0]}
  ELSE LET hw == CollapseChannels(DropBatch([shape |-> shape, px |-> <<>>])).shape
           all == IF Len(shape) \in {3, 4} /\ shape[Len(shape)] = 3
                  THEN [1..NPix -> RGBPixels]
                  ELSE [1..NPix -> Samples]
       IN  {c \in all : Cardinality(Range(c)) <= hw[1] * hw[2]}

B64Strings == {TextOf(toks) : toks \in SeqsUpTo(Tokens, MaxStr)}

ByteStrings == {b64decode(s).val : s \in {x \in B64Strings : b64decode(x).ok}}

StrokePoints == {<<0, 0>>, <<27, 27>>, <<0 - 3, 1>>}

\* the drawings of at most m strokes and t points
RECURSIVE DrawingsOf(_, _)
DrawingsOf(m, t) ==
  IF m = 0 THEN {<<>>}
  ELSE {<<>>} \cup
       UNION {{<<s>> \o d : s \in [1..l -> StrokePoints], d \in DrawingsOf(m - 1, t - l)} :
              l \in 0..t}

Drawings == DrawingsOf(MaxStrokes, MaxPts)

CanvasSizes == {3, TargetSize}

(***************************************************************************)
(* The preprocessing functions, called one at a time.                      *)
(***************************************************************************)
\* main.py line 61: classifier = None
None == [loaded |-> FALSE, class_names |-> <<>>]

\* the detector's main.py line 17: detector = None
NoDetector == [mode |-> "None"]

NoCall == [op |-> "none"]
NoRet == [ok |-> FALSE, val |-> NoTensor, exc |-> <<>>]
NoLocals == [none |-> TRUE]

Init ==
  /\ classifier = None
  /\ started = FALSE
  /\ detector = NoDetector
  /\ lifespan_entered = FALSE
  /\ clock = 0
  /\ api_logs = {}
  /\ call = NoCall
  /\ ret = NoRet
  /\ locals = NoLocals

CallBytes ==
  /\ call = NoCall
  /\ \E b \in ByteStrings : \E rz \in BytesResizeOutcomes(b) :
       /\ call' = [op |-> "bytes", image_bytes |-> b]
       /\ ret' = preprocess_image_from_bytes(b, rz)
       /\ locals' = [decoded |-> DecodeImage(b).ok]
  /\ UNCHANGED globals

CallBase64 ==
  /\ call = NoCall
  /\ \E s \in B64Strings : \E rz \in Base64ResizeOutcomes(s) :
       /\ call' = [op |-> "base64", base64_string |-> s]
       /\ ret' = preprocess_image_from_base64(s, rz)
       /\ locals' = [b64_arg |-> StripDataUri(s)]
  /\ UNCHANGED globals

CallArray ==
  /\ call = NoCall
  /\ \E s \in Shapes : \E c \in ContentOf(s) : \E mode \in CastModes :
       LET a == [shape |-> s, px |-> c]
       IN  \E rz \in ArrayResizeOutcomes(a, mode) :
             /\ call' = [op |-> "array", image_array |-> a]
             /\ ret' = preprocess_image_from_array(a, rz)
             /\ locals' = [resized |-> rz # <<>>, arg_after |-> image_array_after(a)]
  /\ UNCHANGED globals

CallStroke ==
  /\ call = NoCall
  /\ \E d \in Drawings : \E cs \in CanvasSizes :
       LET canvas == Rasterize(d, cs)
       IN  \E rz \in CanvasResizeOutcomes(canvas, cs) :
             /\ call' = [op |-> "stroke", strokes |-> d, canvas_size |-> cs]
             /\ ret' = preprocess_stroke_data(d, cs, rz)
             /\ locals' = [canvas |-> canvas, arg_after |-> strokes_after(d)]
  /\ UNCHANGED globals

\* preprocess_image_from_array on a tensor the pipeline has returned
CallArrayAgain ==
  /\ call.op \in {"bytes", "base64", "array", "stroke"}
  /\ ret.ok
  /\ call' = [op |-> "array_again", image_array |-> ret.val]
  /\ ret' = preprocess_image_from_array(ret.val, <<>>)
  /\ locals' = [resized |-> FALSE, arg_after |-> image_array_after(ret.val)]
  /\ UNCHANGED globals

\* the call is over
Return ==
  /\ call # NoCall
  /\ call' = NoCall
  /\ ret' = NoRet
  /\ locals' = NoLocals
  /\ UNCHANGED globals

NextPre ==
  \/ CallBytes
  \/ CallBase64
  \/ CallArray
  \/ CallStroke
  \/ CallArrayAgain
  \/ Return

SpecPre == Init /\ [][NextPre]_vars

(***************************************************************************)
(* model.py SketchClassifier.  Indices count from 1 here and from 0 in     *)
(* the code.  A probability is an integer number of 1/PTotal.              *)
(***************************************************************************)
\* lines 25-42
class_names ==
  <<"cat", "dog", "bird", "fish", "bear", "butterfly", "bee", "spider",
    "house", "castle", "barn", "bridge", "lighthouse", "church",
    "car", "airplane", "bicycle", "boat", "train", "truck", "bus",
    "tree", "flower", "sun", "moon", "cloud", "mountain", "river",
    "apple", "banana", "book", "chair", "table", "cup", "umbrella",
    "face", "eye", "hand", "foot",
    "circle", "triangle", "square", "star", "heart",
    "sword", "axe", "hammer", "key", "crown">>

\* config.py lines 30-49: Settings.CLASS_NAMES
CLASS_NAMES ==
  <<"cat", "dog", "bird", "fish", "bear", "butterfly", "spider",
    "house", "castle", "barn", "bridge", "lighthouse", "church",
    "car", "airplane", "bicycle", "truck", "train",
    "tree", "flower", "sun", "moon", "cloud", "mountain",
    "apple", "banana", "book", "chair", "table", "cup", "umbrella",
    "face", "eye", "hand", "foot",
    "circle", "triangle", "square", "star",
    "sword", "axe", "hammer", "key", "crown",
    "guitar", "piano">>

\* upload_to_huggingface.py lines 327-344: the config uploaded with the model
model_config ==
  [num_classes |-> 46,
   classes |->
     <<"cat", "dog", "bird", "fish", "bear", "butterfly", "spider",
       "house", "castle", "barn", "bridge", "lighthouse", "church",
       "car", "airplane", "bicycle", "truck", "train",
       "tree", "flower", "sun", "moon", "cloud", "mountain",
       "apple", "banana", "book", "chair", "table", "cup", "umbrella",
       "face", "eye", "hand", "foot",
       "circle", "triangle", "square", "star",
       "sword", "axe", "hammer", "key", "crown",
       "guitar", "piano">>]

\* SketchClassifier(): the object __init__ leaves when the model loads
SketchClassifier == [loaded |-> TRUE, class_names |-> class_names]

\* the vectors of n probabilities that sum to t
RECURSIVE VectorsOf(_, _)
VectorsOf(n, t) ==
  IF n = 0 THEN (IF t = 0 THEN {<<>>} ELSE {})
  ELSE UNION {{<<x>> \o v : v \in VectorsOf(n - 1, t - x)} : x \in 0..t}

\* what self.model.predict can return for one image
ModelOutputs == UNION {VectorsOf(n, PTotal) : n \in 1..MaxN}

Perms(n) == {f \in [1..n -> 1..n] : \A i, j \in 1..n : i # j => f[i] # f[j]}

\* np.argsort(pred), kind='quicksort': some permutation that puts pred in
\* non-decreasing order; equal keys come in an order the build decides
argsort(pred) ==
  {f \in Perms(Len(pred)) : \A i, j \in 1..Len(pred) : i < j => pred[f[i]] <= pred[f[j]]}

\* f"{p * 100:.2f}%", in hundredths of a percent
Percent(p) == (p * 10000 + PTotal \div 2) \div PTotal

RaisedList(chain) == [ok |-> FALSE, val |-> <<>>, exc |-> chain]

\* the ranking without the reversal: np.argsort(pred)[:top_k]
TopK_Ascending(self, pred, top_k, order) ==
  LET top_indices == SliceTo(order, top_k)
  IN  Returned([j \in 1..Len(top_indices) |->
        [class |-> self.class_names[top_indices[j]],
         confidence |-> pred[top_indices[j]],
         confidence_percent |-> Percent(pred[top_indices[j]])]])

\* lines 91-99 and 120-128: order is the outcome of np.argsort
TopK(self, pred, top_k, order) ==
  LET top_indices == SliceTo(Reverse(order), top_k)
  IN  IF \E j \in 1..Len(top_indices) : top_indices[j] > Len(self.class_names)
      THEN RaisedList(<<Frame("IndexError", "list index out of range")>>)
      ELSE Returned([j \in 1..Len(top_indices) |->
             [class |-> self.class_names[top_indices[j]],
              confidence |-> pred[top_indices[j]],
              confidence_percent |-> Percent(pred[top_indices[j]])]])

\* lines 81-85
ShapeIsValid(shape) == shape = <<1, TargetSize, TargetSize, 1>>

\* self.model.predict raised: there is no output
ModelError == <<>>

\* the tensors the model would be called with if line 88 came before the
\* check of line 81
predict_model_calls_Unchecked(image) == <<image.shape>>

\* the tensors self.model.predict is called with during predict: line 88 is
\* reached only past the check of lines 81-85
predict_model_calls(image) ==
  IF ShapeIsValid(image.shape) THEN <<image.shape>> ELSE <<>>

\* SketchClassifier.predict; predictions is what the model returns for the
\* image
predict(self, image, predictions, top_k, order) ==
  IF ~ShapeIsValid(image.shape)
  THEN RaisedList(<<Frame("ValueError", "Expected input shape (1, 28, 28, 1)")>>)
  ELSE IF predictions = ModelError
  THEN RaisedList(<<Frame("InvalidArgumentError", "model.predict")>>)
  ELSE TopK(self, predictions, top_k, order)

\* SketchClassifier.predict_batch; predictions holds one row per image and
\* orders the outcome of np.argsort for each row
RECURSIVE BatchRows(_, _, _, _, _)
BatchRows(self, predictions, top_k, orders, acc) ==
  IF predictions = <<>> THEN Returned(acc)
  ELSE LET r == TopK(self, Head(predictions), top_k, Head(orders))
       IN  IF ~r.ok THEN r
           ELSE BatchRows(self, Tail(predictions), top_k, Tail(orders), Append(acc, r.val))

predict_batch(self, predictions, top_k, orders) ==
  BatchRows(self, predictions, top_k, orders, <<>>)

(***************************************************************************)
(* main.py: the handlers, each served in one step.                         *)
(***************************************************************************)
HTTPException(status, detail) ==
  [status |-> status, success |-> FALSE, predictions |-> <<>>, detail |-> detail]

PredictionResponse(predictions) ==
  [status |-> 200, success |-> TRUE, predictions |-> predictions, detail |-> <<>>]

\* lines 190-193 and 287-306: except Exception as e: raise HTTPException(500)
PredictionFailed(exc) ==
  HTTPException(500, <<Frame("HTTPException", "Prediction failed")>> \o exc)

\* the steps of a handler that write a file under LOG_DIR
FileSteps == {"uploaded", "base64.txt", "png", "json", "ERROR.json"}

IsFileStep(step) == step \in FileSteps

\* the files a handler wrote, in the order it wrote them
FilesWritten(steps) == SelectSeq(steps, IsFileStep)

\* what the body of a handler leaves: the response, the steps it took in
\* order and the files among them, the calls of the model, the exceptions
\* caught without failing the request, and the stage that raised
Outcome(response, steps, model_calls, swallowed, failed) ==
  [response |-> response, steps |-> steps, files |-> FilesWritten(steps),
   model_calls |-> model_calls, swallowed |-> swallowed, failed |-> failed]

\* the handler that calls classifier.predict again when it raises
predict_from_file_Retry(file, top_k, rz, predictions, order) ==
  LET processed_image == preprocess_image_from_bytes(file.image_bytes, rz)
      r == predict(classifier, processed_image.val, predictions, top_k, order)
  IN  IF ~file.readable
      THEN Outcome(PredictionFailed(<<Frame("OSError", "read")>>), <<"read">>,
                   <<>>, <<>>, <<"read">>)
      ELSE IF ~processed_image.ok
      THEN Outcome(PredictionFailed(processed_image.exc),
                   <<"read", "uploaded", "preprocess">>, <<>>, <<>>, <<"preprocess">>)
      ELSE IF ~r.ok
      THEN Outcome(PredictionFailed(r.exc),
                   <<"read", "uploaded", "preprocess", "predict", "predict">>,
                   predict_model_calls(processed_image.val)
                     \o predict_model_calls(processed_image.val),
                   <<>>, <<"predict">>)
      ELSE Outcome(PredictionResponse(r.val),
                   <<"read", "uploaded", "preprocess", "predict">>,
                   predict_model_calls(processed_image.val), <<>>, <<>>)

\* lines 156-193: the body of predict_from_file once the model is loaded:
\* file.read, the upload saved, preprocessing, inference
predict_from_file(file, top_k, rz, predictions, order) ==
  LET processed_image == preprocess_image_from_bytes(file.image_bytes, rz)
      r == predict(classifier, processed_image.val, predictions, top_k, order)
  IN  IF ~file.readable
      THEN Outcome(PredictionFailed(<<Frame("OSError", "read")>>), <<"read">>,
                   <<>>, <<>>, <<"read">>)
      ELSE IF ~processed_image.ok
      THEN Outcome(PredictionFailed(processed_image.exc),
                   <<"read", "uploaded", "preprocess">>, <<>>, <<>>, <<"preprocess">>)
      ELSE IF ~r.ok
      THEN Outcome(PredictionFailed(r.exc),
                   <<"read", "uploaded", "preprocess", "predict">>,
                   predict_model_calls(processed_image.val), <<>>, <<"predict">>)
      ELSE Outcome(PredictionResponse(r.val),
                   <<"read", "uploaded", "preprocess", "predict">>,
                   predict_model_calls(processed_image.val), <<>>, <<>>)

\* lines 227-243, then the rest of the handler: the text saved, the raw
\* text decoded for the log and the image saved if it decodes
StepsOfBase64(image_base64, rest) ==
  <<"base64.txt", "b64decode">>
    \o (IF b64decode(image_base64).ok THEN <<"png">> ELSE <<>>)
    \o rest

\* the handler that writes the error log in a finally clause
predict_from_base64_Finally(image_base64, top_k, rz, predictions, order) ==
  LET decode_error == b64decode(image_base64).exc
      processed_image == preprocess_image_from_base64(image_base64, rz)
      r == predict(classifier, processed_image.val, predictions, top_k, order)
  IN  IF ~processed_image.ok
      THEN Outcome(PredictionFailed(processed_image.exc),
                   StepsOfBase64(image_base64, <<"preprocess", "ERROR.json">>),
                   <<>>, decode_error, <<"preprocess">>)
      ELSE IF ~r.ok
      THEN Outcome(PredictionFailed(r.exc),
                   StepsOfBase64(image_base64, <<"preprocess", "predict", "ERROR.json">>),
                   predict_model_calls(processed_image.val), decode_error, <<"predict">>)
      ELSE Outcome(PredictionResponse(r.val),
                   StepsOfBase64(image_base64,
                                 <<"preprocess", "predict", "json", "ERROR.json">>),
                   predict_model_calls(processed_image.val), decode_error, <<>>)

\* lines 227-306: the body of predict_from_base64 once the model is loaded:
\* preprocessing and inference, then the request log (lines 259-275), or
\* the error log of the except clause (lines 287-304)
predict_from_base64(image_base64, top_k, rz, predictions, order) ==
  LET decode_error == b64decode(image_base64).exc
      processed_image == preprocess_image_from_base64(image_base64, rz)
      r == predict(classifier, processed_image.val, predictions, top_k, order)
  IN  IF ~processed_image.ok
      THEN Outcome(PredictionFailed(processed_image.exc),
                   StepsOfBase64(image_base64, <<"preprocess", "ERROR.json">>),
                   <<>>, decode_error, <<"preprocess">>)
      ELSE IF ~r.ok
      THEN Outcome(PredictionFailed(r.exc),
                   StepsOfBase64(image_base64, <<"preprocess", "predict", "ERROR.json">>),
                   predict_model_calls(processed_image.val), decode_error, <<"predict">>)
      ELSE Outcome(PredictionResponse(r.val),
                   StepsOfBase64(image_base64, <<"preprocess", "predict", "json">>),
                   predict_model_calls(processed_image.val), decode_error, <<>>)

\* the requested top_k: an integer, unconstrained (lines 67 and 130)
TopKs == (0 - 1)..(MaxN + 1)

ImageShapes ==
  {<<1, TargetSize, TargetSize, 1>>, <<TargetSize, TargetSize, 1>>,
   <<1, TargetSize, TargetSize, 3>>}

\* the request bodies: an image, the same behind a data URI, an image of
\* two levels, a header alone, and texts that are no image
RequestTexts ==
  {TextOf(toks) : toks \in
     {<<"iVBO", "AAAA">>, <<"data:", ";base64", ",", "iVBO", "AAAA">>,
      <<"iVBO", "data:">>, <<"iVBO">>, <<"!">>, <<"A">>, <<>>}}

Uploads == {b64decode(s).val : s \in {x \in RequestTexts : b64decode(x).ok}}

\* what file.read() gives: the bytes, or an error
UploadFiles ==
  {[readable |-> TRUE, image_bytes |-> b] : b \in Uploads}
    \cup {[readable |-> FALSE, image_bytes |-> <<>>]}

\* what the model gives a handler: a probability vector, or an error
HandlerOutputs == ModelOutputs \cup {ModelError}

\* datetime.now(): the system clock, to the microsecond
datetime_now == clock \div TicksPerMicro

\* strftime("%Y%m%d_%H%M%S_%f"): the date, the time and the microsecond
strftime(now) == <<"%Y%m%d_%H%M%S", now>>

\* no request id: the handler left before line 148 or 213
NoRequestId == <<>>

\* the names under LOG_DIR of the files a request writes
LogNames(request_id, files) == {<<request_id, files[i]>> : i \in 1..Len(files)}

\* lines 78-87: SketchClassifier() loads the model or raises
startup_event ==
  /\ call = NoCall
  /\ ~started
  /\ started' = TRUE
  /\ call' = [op |-> "startup"]
  /\ locals' = NoLocals
  /\ \/ /\ classifier' = SketchClassifier
        /\ ret' = [ok |-> TRUE, val |-> <<>>, exc |-> <<>>]
     \/ /\ classifier' = classifier
        /\ ret' = RaisedList(<<Frame("FileNotFoundError", "Model file not found")>>)
  /\ UNCHANGED <<detector, lifespan_entered, clock, api_logs>>

\* a direct call of SketchClassifier.predict
Predict ==
  /\ call = NoCall
  /\ classifier # None
  /\ \E shape \in ImageShapes : \E p \in ModelOutputs : \E k \in TopKs :
     \E order \in argsort(p) :
       LET image == [shape |-> shape, px |-> <<>>]
       IN  /\ call' = [op |-> "predict", image_shape |-> shape, predictions |-> p,
                       top_k |-> k]
           /\ ret' = predict(classifier, image, p, k, order)
           /\ locals' = [model_calls |-> predict_model_calls(image)]
  /\ UNCHANGED globals

\* the batches of at most b rows of n probabilities, each row with an order
RECURSIVE BatchesOf(_, _)
BatchesOf(b, n) ==
  IF b = 0 THEN {<<>>}
  ELSE {<<>>} \cup
       UNION {{<<[p |-> p, order |-> o]>> \o rest : o \in argsort(p), rest \in BatchesOf(b - 1, n)} :
              p \in VectorsOf(n, PTotal)}

\* a direct call of SketchClassifier.predict_batch
PredictBatch ==
  /\ call = NoCall
  /\ classifier # None
  /\ \E n \in 1..MaxN : \E batch \in BatchesOf(MaxBatch, n) : \E k \in TopKs :
       LET rows == [i \in 1..Len(batch) |-> batch[i].p]
           orders == [i \in 1..Len(batch) |-> batch[i].order]
       IN  /\ call' = [op |-> "predict_batch", predictions |-> rows, top_k |-> k]
           /\ ret' = predict_batch(classifier, rows, k, orders)
           /\ locals' = [model_calls |-> <<<<Len(rows), TargetSize, TargetSize, 1>>>>]
  /\ UNCHANGED globals

\* the check made after the request text is saved: the handler that takes
\* its request id and writes its first log before it looks at classifier
ModelNotLoaded_Logged ==
  /\ ret' = HTTPException(503, <<Frame("HTTPException", "Model not loaded")>>)
  /\ locals' = [request_id |-> strftime(datetime_now), steps |-> <<"base64.txt">>,
                files |-> <<"base64.txt">>, model_calls |-> <<>>,
                swallowed |-> <<>>, failed |-> <<>>, overwritten |-> {}]
  /\ api_logs' = api_logs \cup {<<strftime(datetime_now), "base64.txt">>}

\* what a handler leaves when the model is not loaded (lines 144-145 and
\* 209-210)
ModelNotLoaded ==
  /\ ret' = HTTPException(503, <<Frame("HTTPException", "Model not loaded")>>)
  /\ locals' = [request_id |-> NoRequestId, steps |-> <<>>, files |-> <<>>,
                model_calls |-> <<>>, swallowed |-> <<>>, failed |-> <<>>,
                overwritten |-> {}]
  /\ api_logs' = api_logs

\* what a handler leaves past the check: r is the outcome of its body
Served(request_id, r) ==
  /\ ret' = r.response
  /\ locals' = [request_id |-> request_id, steps |-> r.steps, files |-> r.files,
                model_calls |-> r.model_calls, swallowed |-> r.swallowed,
                failed |-> r.failed,
                overwritten |-> LogNames(request_id, r.files) \cap api_logs]
  /\ api_logs' = api_logs \cup LogNames(request_id, r.files)

\* POST /predict, for uploads, top_k and model outcomes of the given sets
ServePredictFile(files, top_ks, outputs) ==
  /\ call = NoCall
  /\ \E file \in files : \E k \in top_ks :
       /\ call' = [op |-> "predict_from_file", readable |-> file.readable,
                   image_bytes |-> file.image_bytes, top_k |-> k]
       /\ IF classifier = None
          THEN ModelNotLoaded
          ELSE \E rz \in BytesResizeOutcomes(file.image_bytes) : \E p \in outputs :
               \E order \in argsort(p) :
                 Served(strftime(datetime_now),
                        predict_from_file(file, k, rz, p, order))
  /\ UNCHANGED <<classifier, started, detector, lifespan_entered, clock>>

\* POST /predict/base64, for texts, top_k and model outcomes of the given sets
ServePredictBase64(texts, top_ks, outputs) ==
  /\ call = NoCall
  /\ \E s \in texts : \E k \in top_ks :
       /\ call' = [op |-> "predict_from_base64", image_base64 |-> s, top_k |-> k]
       /\ IF classifier = None
          THEN ModelNotLoaded
          ELSE \E rz \in Base64ResizeOutcomes(s) : \E p \in outputs :
               \E order \in argsort(p) :
                 Served(strftime(datetime_now),
                        predict_from_base64(s, k, rz, p, order))
  /\ UNCHANGED <<classifier, started, detector, lifespan_entered, clock>>

\* GET /health answering 503 while the model is not loaded
health_check_Unavailable ==
  LET model_loaded == classifier # None
  IN  [status |-> IF model_loaded THEN 200 ELSE 503,
       body |-> [status |-> IF model_loaded THEN "healthy" ELSE "unhealthy",
                 model_loaded |-> model_loaded]]

\* lines 105-112: the dict returned, sent with status 200
health_check ==
  LET model_loaded == classifier # None
  IN  [status |-> 200,
       body |-> [status |-> IF model_loaded THEN "healthy" ELSE "unhealthy",
                 model_loaded |-> model_loaded]]

\* lines 115-124
get_classes ==
  IF classifier = None
  THEN HTTPException(503, <<Frame("HTTPException", "Model not loaded")>>)
  ELSE [status |-> 200,
        body |-> [classes |-> classifier.class_names,
                  num_classes |-> Len(classifier.class_names)]]

\* GET /health
HandleHealth ==
  /\ call = NoCall
  /\ call' = [op |-> "health_check"]
  /\ ret' = health_check
  /\ locals' = NoLocals
  /\ UNCHANGED globals

\* GET /classes sorting the class list in place before it answers
HandleClasses_Sorting ==
  /\ call = NoCall
  /\ call' = [op |-> "get_classes"]
  /\ ret' = get_classes
  /\ locals' = NoLocals
  /\ classifier' = [classifier EXCEPT !.class_names = Reverse(@)]
  /\ UNCHANGED <<started, detector, lifespan_entered, clock, api_logs>>

\* GET /classes
HandleClasses ==
  /\ call = NoCall
  /\ call' = [op |-> "get_classes"]
  /\ ret' = get_classes
  /\ locals' = NoLocals
  /\ UNCHANGED globals

HandlePredictFile == ServePredictFile(UploadFiles, TopKs, HandlerOutputs)

HandlePredictBase64 == ServePredictBase64(RequestTexts, TopKs, HandlerOutputs)

Next ==
  \/ startup_event
  \/ Predict
  \/ PredictBatch
  \/ HandlePredictFile
  \/ HandlePredictBase64
  \/ HandleHealth
  \/ HandleClasses
  \/ Return

Spec == Init /\ [][Next]_vars

(***************************************************************************)
(* vr-3d-object-detector/app: detector.py, dual_detector.py and main.py.   *)
(* An image is the body of its file, a row of samples; a box is its class  *)
(* id, and a detection the name of its class (confidence and corners are   *)
(* not tracked).                                                           *)
(***************************************************************************)
\* YOLODetector(...) and DualYOLODetector(...), as lifespan builds them
YOLODetector == [mode |-> "single"]
DualYOLODetector == [mode |-> "dual"]

\* the exception classes the handler tells apart: binascii.Error derives
\* from ValueError
IsValueError(type) == type \in {"ValueError", "binascii.Error"}
IsRuntimeError(type) == type = "RuntimeError"

RaisedImage(chain) == [ok |-> FALSE, val |-> <<>>, exc |-> chain]

\* loading the samples of an opened image: none left is a truncated file
ImageLoad(body) ==
  IF body = <<>> THEN RaisedImage(<<Frame("OSError", "image file is truncated")>>)
  ELSE [ok |-> TRUE, val |-> body, exc |-> <<>>]

\* Image.open of the decoded bytes
OpenDecoded(dec) ==
  IF dec.ok THEN ImageOpen(dec.val) ELSE RaisedImage(dec.exc)

\* image.convert('RGB') of an image that is not RGB: it loads the samples
ConvertRGB(im, rgb) ==
  IF im.ok /\ ~rgb THEN ImageLoad(im.val) ELSE im

\* b64decode, Image.open and convert('RGB')
OpenRGB(base64_string, rgb) ==
  ConvertRGB(OpenDecoded(b64decode(base64_string)), rgb)

\* except Exception as e: raise ValueError(f"Failed to decode ...: {e}")
DecodeFailed(im) ==
  IF im.ok THEN im
  ELSE RaisedImage(<<Frame("ValueError", "Failed to decode base64 image")>> \o im.exc)

\* detector.py lines 36-66: the text after the first comma, if it has one
YOLODetector_decode_base64_image(base64_string, rgb) ==
  DecodeFailed(OpenRGB(IF Contains(base64_string, ",")
                       THEN AfterFirst(base64_string, ",") ELSE base64_string, rgb))

\* dual_detector.py lines 32-39: the text as it is, exceptions as they are
DualYOLODetector_decode_base64_image(base64_string, rgb) == OpenRGB(base64_string, rgb)

\* model.names of the two sets of weights: class id 0 is the first name
coco_model_names == <<"person", "bicycle">>
custom_model_names == <<"cube", "sphere">>

\* the loop over result.boxes: one dict per box, appended in model order
Detections(names, boxes) ==
  [i \in 1..Len(boxes) |-> [class |-> names[boxes[i] + 1]]]

\* a model called on a loaded image: the detections of its boxes, or the
\* error the model raises
Inference(loaded, result, names) ==
  IF ~loaded.ok THEN loaded
  ELSE IF ~result.ok THEN RaisedImage(<<Frame(result.type, "model")>>)
  ELSE [ok |-> TRUE, val |-> Detections(names, result.boxes), exc |-> <<>>]

\* a YOLO model called on an image: the model loads the image if it is not
\* loaded yet, then gives its boxes or raises
Yolo(image, result, names) == Inference(ImageLoad(image), result, names)

\* except Exception as e: raise RuntimeError(f"Detection failed: {e}")
DetectionFailed(r) ==
  IF r.ok THEN r
  ELSE RaisedImage(<<Frame("RuntimeError", "Detection failed")>> \o r.exc)

\* detector.py lines 68-113
YOLODetector_detect_objects(image, results) ==
  DetectionFailed(Yolo(image, results[1], coco_model_names))

\* the merge that puts the custom model's detections first
Merged_CustomFirst(coco, custom) ==
  IF ~coco.ok THEN coco
  ELSE IF ~custom.ok THEN custom
  ELSE [ok |-> TRUE, val |-> custom.val \o coco.val, exc |-> <<>>]

\* detections.append over the boxes of the COCO model, then over those of
\* the custom model
Merged(coco, custom) ==
  IF ~coco.ok THEN coco
  ELSE IF ~custom.ok THEN custom
  ELSE [ok |-> TRUE, val |-> coco.val \o custom.val, exc |-> <<>>]

\* dual_detector.py lines 41-84: the COCO model, then the custom model
DualYOLODetector_detect_objects(image, results) ==
  Merged(Yolo(image, results[1], coco_model_names),
         Yolo(image, results[2], custom_model_names))

\* image.size: the image is one row of its samples (no row if it has none)
ImageWidth(image) == Len(image)
ImageHeight(image) == Min(Len(image), 1)

\* the dict process_base64_image returns
DetectionResult(image, detections) ==
  IF ~detections.ok THEN detections
  ELSE [ok |-> TRUE,
        val |-> [detections |-> detections.val,
                 image_width |-> ImageWidth(image),
                 image_height |-> ImageHeight(image)],
        exc |-> <<>>]

\* the detection step of process_base64_image, on the decoded image
DetectDecoded(self, image, results) ==
  IF ~image.ok THEN image
  ELSE DetectionResult(image.val,
                       IF self.mode = "dual"
                       THEN DualYOLODetector_detect_objects(image.val, results)
                       ELSE YOLODetector_detect_objects(image.val, results))

\* process_base64_image of the detector in use (detector.py lines 115-135,
\* dual_detector.py lines 86-95)
process_base64_image(self, base64_string, rgb, results) ==
  DetectDecoded(self,
                IF self.mode = "dual"
                THEN DualYOLODetector_decode_base64_image(base64_string, rgb)
                ELSE YOLODetector_decode_base64_image(base64_string, rgb),
                results)

DetectorHTTPException(status, msg, exc) ==
  [status |-> status, body |-> [detections |-> <<>>],
   detail |-> <<Frame("HTTPException", msg)>> \o exc]

\* the detector's main.py lines 89-102
detector_health_check ==
  IF detector = NoDetector
  THEN DetectorHTTPException(503, "YOLO model not loaded", <<>>)
  ELSE [status |-> 200, body |-> [status |-> "healthy", model_loaded |-> TRUE],
        detail |-> <<>>]

\* the handler with the except clauses in another order: RuntimeError and
\* Exception before ValueError
DetectResponse_ValueErrorLast(result) ==
  IF result.ok THEN [status |-> 200, body |-> result.val, detail |-> <<>>]
  ELSE IF IsRuntimeError(result.exc[1].type)
  THEN DetectorHTTPException(500, "Detection failed", result.exc)
  ELSE DetectorHTTPException(500, "Unexpected error", result.exc)

\* the detector's main.py lines 123-152: the result returned, or the
\* except clauses in their order
DetectResponse(result) ==
  IF result.ok THEN [status |-> 200, body |-> result.val, detail |-> <<>>]
  ELSE IF IsValueError(result.exc[1].type)
  THEN DetectorHTTPException(400, "Invalid image data", result.exc)
  ELSE IF IsRuntimeError(result.exc[1].type)
  THEN DetectorHTTPException(500, "Detection failed", result.exc)
  ELSE DetectorHTTPException(500, "Unexpected error", result.exc)

\* the detector's main.py lines 105-152
detect_objects(request, results) ==
  IF detector = NoDetector
  THEN DetectorHTTPException(503, "YOLO detector not initialized", <<>>)
  ELSE DetectResponse(process_base64_image(detector, request.image_base64,
                                           request.rgb, results))

\* the detector's main.py lines 20-53: CUSTOM_MODEL_PATH chooses the
\* detector; YOLO(...) loads the model or raises.  After the yield there is
\* a log line only.
lifespan ==
  /\ call = NoCall
  /\ ~lifespan_entered
  /\ lifespan_entered' = TRUE
  /\ call' = [op |-> "lifespan"]
  /\ locals' = NoLocals
  /\ \/ \E custom_model_path \in BOOLEAN :
          /\ detector' = IF custom_model_path THEN DualYOLODetector ELSE YOLODetector
          /\ ret' = [ok |-> TRUE, val |-> <<>>, exc |-> <<>>]
     \/ /\ detector' = detector
        /\ ret' = RaisedList(<<Frame("FileNotFoundError", "model")>>)
  /\ UNCHANGED <<classifier, started, clock, api_logs>>

\* the detector's GET /health
HandleDetectorHealth ==
  /\ call = NoCall
  /\ call' = [op |-> "detector_health_check"]
  /\ ret' = detector_health_check
  /\ locals' = NoLocals
  /\ UNCHANGED globals

\* the class ids of the boxes: int(box.cls[0])
BoxClassIds == {0, 1}

\* the exceptions a model call raises
ModelErrorTypes == {"RuntimeError", "ValueError"}

\* what one YOLO model gives for an image: its boxes, or an error
YoloResults ==
  {[ok |-> FALSE, type |-> e, boxes |-> <<>>] : e \in ModelErrorTypes}
    \cup {[ok |-> TRUE, type |-> "", boxes |-> b] : b \in SeqsUpTo(BoxClassIds, MaxBoxes)}

\* what the handler of /detect leaves: whether process_base64_image was
\* called, and the exception it raised
DetectLocals(request, results) ==
  IF detector = NoDetector THEN [processed |-> FALSE, raised |-> <<>>]
  ELSE [processed |-> TRUE,
        raised |-> process_base64_image(detector, request.image_base64,
                                        request.rgb, results).exc]

\* POST /detect, for requests and model outcomes of the given sets; a
\* request is its text and whether the image it encodes is RGB
ServeDetect(requests, results) ==
  /\ call = NoCall
  /\ \E request \in requests : \E rs \in results :
       /\ call' = [op |-> "detect_objects", image_base64 |-> request.image_base64,
                   rgb |-> request.rgb, results |-> rs]
       /\ ret' = detect_objects(request, rs)
       /\ locals' = DetectLocals(request, rs)
  /\ UNCHANGED globals

\* the system clock moves on
Tick ==
  /\ call = NoCall
  /\ clock < MaxClock
  /\ clock' = clock + 1
  /\ UNCHANGED <<classifier, started, detector, lifespan_entered, api_logs,
                 call, ret, locals>>

(***************************************************************************)
(* view_logs.py: the log viewer, run on the directory the API writes.  A   *)
(* file is known by its name; what it holds follows from which statement   *)
(* of main.py wrote it.  The requests logged here have predictions.        *)
(***************************************************************************)
\* list_recent_requests(limit=10)
DefaultLimit == 10

\* where main.py puts a file: the directory, and the name in its parts
LogPath(name) ==
  CASE name[2] = "base64.txt" ->
         [dir |-> "api_logs", parts |-> <<"request_", name[1], "_base64", ".txt">>]
    [] name[2] = "json" ->
         [dir |-> "api_logs", parts |-> <<"request_", name[1], ".json">>]
    [] name[2] = "ERROR.json" ->
         [dir |-> "api_logs", parts |-> <<"request_", name[1], "_ERROR", ".json">>]
    [] name[2] = "png" ->
         [dir |-> "api_logs/received_images", parts |-> <<"request_", name[1], ".png">>]
    [] name[2] = "uploaded" ->
         [dir |-> "api_logs/received_images", parts |-> <<"uploaded_", name[1], "_filename">>]

\* Path(LOG_DIR).glob("request_*.json"): the files of LOG_DIR itself whose
\* name starts with request_ and ends with .json
Glob(logs) ==
  {name \in logs :
     /\ LogPath(name).dir = "api_logs"
     /\ Head(LogPath(name).parts) = "request_"
     /\ LogPath(name).parts[Len(LogPath(name).parts)] = ".json"}

\* the keys of the dict json.dump wrote: request_log (main.py lines 260-271)
\* or error_log (lines 294-301)
LogKeys(name) ==
  IF name[2] = "json"
  THEN {"request_id", "timestamp", "client_ip", "client_port", "user_agent",
        "base64_length", "image_file", "top_k", "predictions", "success"}
  ELSE {"request_id", "timestamp", "error", "error_type", "base64_length", "success"}

\* data[key] for each key in the order given: the first key missing raises
RECURSIVE Subscripts(_, _)
Subscripts(keys, wanted) ==
  IF wanted = <<>> THEN [ok |-> TRUE, val |-> <<>>, exc |-> <<>>]
  ELSE IF Head(wanted) \notin keys
  THEN RaisedList(<<Frame("KeyError", Head(wanted))>>)
  ELSE Subscripts(keys, Tail(wanted))

\* view_logs.py lines 30-47: one pass of the loop of list_recent_requests
ListedKeys ==
  <<"timestamp", "request_id", "client_ip", "client_port", "base64_length",
    "predictions", "success">>

\* view_logs.py lines 138-144: one pass of the loop of show_statistics
CountedKeys == <<"predictions">>

\* the loop over the files: read is the files it reaches; the first that
\* raises ends it
ViewFiles(read, wanted) ==
  IF \E name \in read : ~Subscripts(LogKeys(name), wanted).ok
  THEN Subscripts(LogKeys(CHOOSE name \in read : ~Subscripts(LogKeys(name), wanted).ok),
                  wanted)
  ELSE [ok |-> TRUE, val |-> <<>>, exc |-> <<>>]

\* json_files[:limit] of the files sorted by modification time; the times
\* are not tracked, so any limit files when there are more
RecentFilesOf(files, limit) ==
  IF Cardinality(files) <= limit THEN {files}
  ELSE {s \in SUBSET files : Cardinality(s) = limit}

\* python view_logs.py list
list_recent_requests ==
  /\ call = NoCall
  /\ \E read \in RecentFilesOf(Glob(api_logs), DefaultLimit) :
       /\ call' = [op |-> "list_recent_requests"]
       /\ locals' = [read |-> read]
       /\ ret' = ViewFiles(read, ListedKeys)
  /\ UNCHANGED globals

\* python view_logs.py stats
show_statistics ==
  /\ call = NoCall
  /\ call' = [op |-> "show_statistics"]
  /\ locals' = [read |-> Glob(api_logs)]
  /\ ret' = ViewFiles(Glob(api_logs), CountedKeys)
  /\ UNCHANGED globals

(***************************************************************************)
(* The two services side by side, with the clock running, serving a few    *)
(* payloads: an image, and a text that is no image.                        *)
(***************************************************************************)
ImageText == TextOf(<<"iVBO", "AAAA">>)
NoImageText == TextOf(<<"!">>)

SvcFiles == {[readable |-> TRUE, image_bytes |-> b64decode(ImageText).val]}
SvcTexts == {ImageText, NoImageText}
SvcTopKs == {3}
SvcOutputs == VectorsOf(1, PTotal)
SvcRequests == {[image_base64 |-> s, rgb |-> TRUE] : s \in SvcTexts}
SvcResults == {<<r, r>> : r \in YoloResults}

SvcPredictFile == ServePredictFile(SvcFiles, SvcTopKs, SvcOutputs)

SvcPredictBase64 == ServePredictBase64(SvcTexts, SvcTopKs, SvcOutputs)

SvcDetect == ServeDetect(SvcRequests, SvcResults)

NextSvc ==
  \/ startup_event
  \/ lifespan
  \/ Tick
  \/ SvcPredictFile
  \/ SvcPredictBase64
  \/ HandleHealth
  \/ HandleClasses
  \/ HandleDetectorHealth
  \/ SvcDetect
  \/ list_recent_requests
  \/ show_statistics
  \/ Return

SpecSvc == Init /\ [][NextSvc]_vars

(***************************************************************************)
(* The detector service alone, with every request text, images that are    *)
(* RGB and images that are not, and the outcomes of both YOLO models.      *)
(***************************************************************************)
DetRequests == {[image_base64 |-> s, rgb |-> b] : s \in RequestTexts, b \in BOOLEAN}
DetResults == YoloResults \X YoloResults

HandleDetect == ServeDetect(DetRequests, DetResults)

NextDet ==
  \/ lifespan
  \/ HandleDetectorHealth
  \/ HandleDetect
  \/ Return

SpecDet == Init /\ [][NextDet]_vars

(***************************************************************************)
(* The two prediction endpoints of the classifier alone, for every upload  *)
(* and every request text, with a model of two outputs.                    *)
(***************************************************************************)
PathTopKs == {1, MaxN}
PathOutputs == VectorsOf(2, PTotal) \cup {ModelError}

PathPredictFile == ServePredictFile(UploadFiles, PathTopKs, PathOutputs)

PathPredictBase64 == ServePredictBase64(RequestTexts, PathTopKs, PathOutputs)

NextPaths ==
  \/ startup_event
  \/ PathPredictFile
  \/ PathPredictBase64
  \/ Return

SpecPaths == Init /\ [][NextPaths]_vars

(***************************************************************************)
(* The properties.                                                         *)
(***************************************************************************)
\* the index of a ranked entry's label
LabelIndex(entry) == CHOOSE i \in 1..Len(class_names) : class_names[i] = entry.class

\* v ranks the probabilities p: its entries pair labels with their
\* probabilities, no label twice, in non-increasing order, and no label left
\* out has a higher probability than one taken
RanksTop(v, p) ==
  /\ \A j \in 1..Len(v) :
       \E i \in 1..Len(p) : v[j].class = class_names[i] /\ v[j].confidence = p[i]
  /\ \A j1, j2 \in 1..Len(v) : j1 # j2 => v[j1].class # v[j2].class
  /\ \A j \in 1..(Len(v) - 1) : v[j].confidence >= v[j + 1].confidence
  /\ \A i \in 1..Len(p) :
       (\A j \in 1..Len(v) : v[j].class # class_names[i])
         => \A j \in 1..Len(v) : p[i] <= v[j].confidence

\* C1: for every probability vector p over n labels and every K >= 1,
\* predict returns min(K, n) entries, each a label with its probability, the
\* K largest in non-increasing order; all n when K exceeds n.
C1_TopKRanked ==
  (call.op = "predict" /\ call.top_k >= 1 /\ ShapeIsValid(call.image_shape)) =>
    /\ ret.ok
    /\ Len(ret.val) = Min(call.top_k, Len(call.predictions))
    /\ RanksTop(ret.val, call.predictions)

\* C1 witness: K = 2 of three labels, the two largest returned in order
C1_Witness ==
  /\ call.op = "predict"
  /\ call.top_k = 2
  /\ call.predictions = <<0, PTotal - 1, 1>>
  /\ ret.ok
  /\ Len(ret.val) = 2
  /\ ret.val[1].class = "dog"
  /\ ret.val[2].class = "bird"

\* in v, ranking p, equal probabilities come lower index first, and a tie
\* across the cut keeps the lower index
TiesByIndex(v, p) ==
  /\ \A j1, j2 \in 1..Len(v) :
       (j1 < j2 /\ v[j1].confidence = v[j2].confidence)
         => LabelIndex(v[j1]) < LabelIndex(v[j2])
  /\ \A i1, i2 \in 1..Len(p) :
       (i1 < i2 /\ p[i1] = p[i2] /\ \E j \in 1..Len(v) : LabelIndex(v[j]) = i2)
         => \E j \in 1..Len(v) : LabelIndex(v[j]) = i1

\* C2: in the lists predict and predict_batch return, entries of equal
\* probability are ordered by original index, lower first, and a tie that
\* straddles the top-K cut keeps the lower index.
C2_TiesByIndex ==
  /\ (call.op = "predict" /\ call.top_k >= 1 /\ ret.ok)
       => TiesByIndex(ret.val, call.predictions)
  /\ (call.op = "predict_batch" /\ call.top_k >= 1 /\ ret.ok) =>
       \A r \in 1..Len(ret.val) : TiesByIndex(ret.val[r], call.predictions[r])

\* C3: a requested top-K below 1 is rejected: predict raises, and /predict
\* and /predict/base64 never answer 200 with a prediction list.
C3_TopKBelowOneRejected ==
  /\ (call.op = "predict" /\ call.top_k < 1) => ~ret.ok
  /\ (call.op \in {"predict_from_file", "predict_from_base64"} /\ call.top_k < 1)
       => (ret.status # 200 /\ ~ret.success)

PreOps == {"bytes", "base64", "array", "stroke", "array_again"}

\* C4: every tensor a preprocessing entry point returns has shape
\* (1, 28, 28, 1).
C4_OutputShape ==
  (call.op \in PreOps /\ ret.ok) => ret.val.shape = <<1, 28, 28, 1>>

\* C4 witness: a batch of three-channel images of another size, accepted
C4_Witness ==
  /\ call.op = "array"
  /\ call.image_array.shape = <<2, 3, 2, 3>>
  /\ ret.ok

\* C5: every sample of every tensor the pipeline returns lies in [0, 1].
C5_UnitRange ==
  (call.op \in PreOps /\ ret.ok) =>
    \A i \in 1..Len(ret.val.px) : 0 <= ret.val.px[i] /\ ret.val.px[i] <= UNIT

\* the samples of an array as a raster of one channel
RasterOf(a) == CollapseChannels(DropBatch(a)).px

AlreadyNormalized(a) ==
  \A i \in 1..Len(RasterOf(a)) : 0 <= RasterOf(a)[i] /\ RasterOf(a)[i] <= UNIT

\* C6: preprocess_image_from_array leaves the samples of an already
\* normalized raster unchanged, and applied to a tensor the pipeline has
\* returned it returns the same tensor: f(f(x)) = f(x).
C6_Idempotent ==
  /\ (call.op = "array" /\ ret.ok /\ AlreadyNormalized(call.image_array))
       => ret.val.px = RasterOf(call.image_array)
  /\ (call.op = "array_again" /\ ret.ok) => ret.val = call.image_array

DataPrefix == <<"d", "a", "t", "a", ":">>

HasDataUriPrefix(s) ==
  /\ Len(s) >= Len(DataPrefix)
  /\ \A i \in 1..Len(DataPrefix) : s[i] = DataPrefix[i]
  /\ \E i \in 1..Len(s) : s[i] = ","

\* C7: a text with a data-URI prefix is decoded from after its first comma
\* on, and a text without one is decoded as it is.
C7_DataUriStripped ==
  (call.op = "base64") =>
    LET s == call.base64_string
    IN  IF HasDataUriPrefix(s)
        THEN \E i \in 1..Len(s) :
               /\ s[i] = ","
               /\ \A j \in 1..(i - 1) : s[j] # ","
               /\ locals.b64_arg = [k \in 1..(Len(s) - i) |-> s[i + k]]
        ELSE locals.b64_arg = s

\* C7 witness: a data URI whose payload is an image
C7_Witness ==
  /\ call.op = "base64"
  /\ HasDataUriPrefix(call.base64_string)
  /\ ret.ok

Base64Stage == Frame("ValueError", "Failed to process base64 image")
BytesStage == Frame("ValueError", "Failed to process image")

\* C8: when base64 decoding fails, or the bytes are no image container, the
\* decoder raises and returns no tensor, and the error names the stage and
\* ends with the original cause.
C8_DecodeError ==
  /\ (call.op = "base64" /\ ~b64decode(locals.b64_arg).ok) =>
       /\ ~ret.ok
       /\ ret.val = NoTensor
       /\ ret.exc = <<Base64Stage>> \o b64decode(locals.b64_arg).exc
       /\ ret.exc[Len(ret.exc)].type = "binascii.Error"
  /\ (call.op = "base64" /\ b64decode(locals.b64_arg).ok
        /\ ~StartsWith(b64decode(locals.b64_arg).val, ImageMagic)) =>
       /\ ~ret.ok
       /\ ret.val = NoTensor
       /\ ret.exc = <<Base64Stage, BytesStage,
                      Frame("UnidentifiedImageError", "cannot identify image file")>>
  /\ (call.op = "bytes" /\ ~StartsWith(call.image_bytes, ImageMagic)) =>
       /\ ~ret.ok
       /\ ret.val = NoTensor
       /\ ret.exc = <<BytesStage,
                      Frame("UnidentifiedImageError", "cannot identify image file")>>

\* C8 witness: a text that decodes to bytes that are no image
C8_Witness ==
  /\ call.op = "base64"
  /\ b64decode(locals.b64_arg).ok
  /\ b64decode(locals.b64_arg).val # <<>>
  /\ ~ret.ok
  /\ Len(ret.exc) = 3

\* a shape that reduces to two dimensions: (h, w), or (h, w, c) or
\* (b, h, w, c) with c = 3 or c = 1
ReducibleTo2D(shape) ==
  \/ Len(shape) = 2
  \/ Len(shape) \in {3, 4} /\ shape[Len(shape)] \in {1, 3}

\* C9: preprocess_image_from_array raises the shape error, and returns no
\* tensor, exactly when the array does not reduce to two dimensions.
C9_ShapeError ==
  (call.op = "array") =>
    /\ ret.ok <=> ReducibleTo2D(call.image_array.shape)
    /\ ~ret.ok =>
         /\ ret.val = NoTensor
         /\ ret.exc = <<Frame("ValueError", "Failed to process image array"),
                        Frame("ValueError", "Cannot process image with shape")>>

\* C9 witness: a 3-D array of two channels, rejected
C9_Witness ==
  /\ call.op = "array"
  /\ call.image_array.shape = <<28, 28, 2>>
  /\ ~ret.ok

HasSegment(stroke) == Len(stroke) >= 2

\* C10: a stroke of fewer than 2 points leaves the canvas as it was, and a
\* drawing of such strokes only leaves every cell 0.
C10_ShortStrokesSkipped ==
  (call.op = "stroke") =>
    /\ locals.canvas = Rasterize(SelectSeq(call.strokes, HasSegment), call.canvas_size)
    /\ (\A i \in 1..Len(call.strokes) : Len(call.strokes[i]) < 2)
         => \A c \in (0..(call.canvas_size - 1)) \X (0..(call.canvas_size - 1)) :
              CanvasAt(locals.canvas, c) = 0

\* C10 witness: a drawing of two single-point strokes
C10_Witness ==
  /\ call.op = "stroke"
  /\ Len(call.strokes) = 2
  /\ Len(call.strokes[1]) = 1
  /\ Len(call.strokes[2]) = 1
  /\ call.canvas_size = 28

\* point i of 0..10 on the segment from p1 to p2, in tenths
TenthsOn(p1, p2, i) ==
  <<10 * p1[1] + i * (p2[1] - p1[1]), 10 * p1[2] + i * (p2[2] - p1[2])>>

\* x and y both in [0, canvas_size)
InsideCanvas(q, canvas_size) ==
  /\ 0 <= q[1] /\ q[1] < 10 * canvas_size
  /\ 0 <= q[2] /\ q[2] < 10 * canvas_size

\* the cell (int(y), int(x)) of a point inside the canvas
CellOf(q) == <<q[2] \div 10, q[1] \div 10>>

\* the cells of the 11 points of every consecutive pair of every stroke of
\* at least 2 points, the points outside the canvas left out
SegmentCells(strokes, canvas_size) ==
  UNION {UNION {{CellOf(TenthsOn(strokes[s][j], strokes[s][j + 1], i)) :
                   i \in {n \in 0..10 :
                            InsideCanvas(TenthsOn(strokes[s][j], strokes[s][j + 1], n),
                                         canvas_size)}} :
                j \in 1..(Len(strokes[s]) - 1)} :
         s \in {n \in 1..Len(strokes) : Len(strokes[n]) >= 2}}

DiagonalDrawing == <<<<<<0, 0>>, <<27, 27>>>>>>

\* C11: for each stroke of at least 2 points and each consecutive pair
\* (p1, p2) the rasterizer marks the 11 points p1 + (i/10)(p2 - p1),
\* i = 0..10, at cell (int(y), int(x)), skipping the points outside
\* [0, canvas_size); no write falls outside the canvas; the drawing
\* [[(0,0),(27,27)]] on a canvas of 28 leaves more than 0 marked cells.
C11_SegmentsMarked ==
  (call.op = "stroke") =>
    /\ DOMAIN locals.canvas = SegmentCells(call.strokes, call.canvas_size)
    /\ \A c \in DOMAIN locals.canvas :
         /\ c[1] \in 0..(call.canvas_size - 1)
         /\ c[2] \in 0..(call.canvas_size - 1)
    /\ (call.strokes = DiagonalDrawing /\ call.canvas_size = 28)
         => Cardinality({c \in DOMAIN locals.canvas : locals.canvas[c] # 0}) > 0

\* C11 witness: the diagonal on a canvas of 28, both endpoints marked, and
\* 11 cells in all
C11_Witness ==
  /\ call.op = "stroke"
  /\ call.strokes = DiagonalDrawing
  /\ call.canvas_size = 28
  /\ CanvasAt(locals.canvas, <<0, 0>>) # 0
  /\ CanvasAt(locals.canvas, <<27, 27>>) # 0
  /\ Cardinality(DOMAIN locals.canvas) = 11

\* the canvas is binary, and a cell is 255 exactly when it is one of cells
BinaryCanvas(canvas, canvas_size, cells) ==
  \A c \in (0..(canvas_size - 1)) \X (0..(canvas_size - 1)) :
    /\ CanvasAt(canvas, c) \in {0, 255}
    /\ CanvasAt(canvas, c) = 255 <=> c \in cells

\* C12: the canvas is binary at canvas resolution after every stroke: each
\* cell is 0 or 255, and a cell is 255 if and only if some interpolated
\* point inside the canvas, of some stroke of at least 2 points, truncates
\* to it.
C12_BinaryCanvas ==
  (call.op = "stroke") =>
    /\ BinaryCanvas(locals.canvas, call.canvas_size,
                    SegmentCells(call.strokes, call.canvas_size))
    /\ \A n \in 0..Len(call.strokes) :
         BinaryCanvas(Rasterize(SubSeq(call.strokes, 1, n), call.canvas_size),
                      call.canvas_size,
                      SegmentCells(SubSeq(call.strokes, 1, n), call.canvas_size))

\* C12 witness: a segment that enters the canvas at its last point only:
\* one cell is 255 and its neighbour is 0
C12_Witness ==
  /\ call.op = "stroke"
  /\ call.strokes = <<<<<<0 - 3, 1>>, <<0, 0>>>>>>
  /\ call.canvas_size = 3
  /\ CanvasAt(locals.canvas, <<0, 0>>) = 255
  /\ CanvasAt(locals.canvas, <<0, 1>>) = 0
  /\ CanvasAt(locals.canvas, <<1, 0>>) = 0

PredictHandlers == {"predict_from_file", "predict_from_base64"}

\* C13: predict checks the shape before it calls the model: for a shape
\* other than (1, 28, 28, 1) it raises a validation error and the model is
\* not called; the model is only ever called with a tensor of that shape.
C13_ShapeChecked ==
  /\ (call.op = "predict" /\ call.image_shape # <<1, 28, 28, 1>>) =>
       /\ ~ret.ok
       /\ ret.exc[1].type = "ValueError"
       /\ locals.model_calls = <<>>
  /\ (call.op \in {"predict"} \cup PredictHandlers) =>
       \A i \in 1..Len(locals.model_calls) : locals.model_calls[i] = <<1, 28, 28, 1>>

\* C13 witness: a tensor without the batch dimension, rejected before the
\* model is called
C13_Witness ==
  /\ call.op = "predict"
  /\ call.image_shape = <<28, 28, 1>>
  /\ ~ret.ok
  /\ locals.model_calls = <<>>

\* C15: in /predict and /predict/base64 the model is called at most once per
\* request, and a request in which reading, preprocessing or inference
\* raised ends with status 500 and never with success = True.
C15_NoRetry ==
  (call.op \in PredictHandlers) =>
    /\ Len(locals.model_calls) <= 1
    /\ locals.failed # <<>> => (ret.status = 500 /\ ~ret.success)

\* C15 witness: the model raised on its one call and the request ended 500
C15_Witness ==
  /\ call.op = "predict_from_base64"
  /\ locals.failed = <<"predict">>
  /\ Len(locals.model_calls) = 1
  /\ ret.status = 500

\* C16: no exception is caught silently: a request in which an exception was
\* caught and dropped does not report success, and a failure carries the
\* stage and the original cause.
C16_NothingSwallowed ==
  (call.op \in PredictHandlers /\ call.top_k >= 1) =>
    /\ ret.success => locals.swallowed = <<>>
    /\ locals.failed # <<>> => (~ret.success /\ Len(ret.detail) >= 2)

\* C18: GET /classes with a loaded model answers 200 with the classifier's
\* class list and its length, and the list has exactly 4 classes.
C18_FourClasses ==
  (call.op = "get_classes" /\ classifier # None) =>
    /\ ret.status = 200
    /\ ret.body.classes = classifier.class_names
    /\ ret.body.num_classes = Len(ret.body.classes)
    /\ Len(ret.body.classes) = 4

\* C19: GET /health answers 200 in every state; the body says model_loaded
\* and 'healthy' exactly when the global classifier is set, and not loaded
\* and 'unhealthy' otherwise.
C19_HealthAlways200 ==
  (call.op = "health_check") =>
    /\ ret.status = 200
    /\ ret.body.model_loaded <=> classifier # None
    /\ ret.body.status = (IF classifier # None THEN "healthy" ELSE "unhealthy")

\* C19 witness: startup has failed, the classifier is None, and /health
\* answers 200 'unhealthy'
C19_Witness ==
  /\ call.op = "health_check"
  /\ started
  /\ classifier = None
  /\ ret.status = 200
  /\ ret.body.status = "unhealthy"

RequestHandlers ==
  PredictHandlers \cup {"health_check", "get_classes", "detector_health_check",
                        "detect_objects"}

\* C14: the loaded model and the class list are written during startup
\* only: once startup has run no step assigns classifier or detector or
\* changes class_names, and no request handler does so in any state.
C14_WrittenAtStartupOnly ==
  [][/\ started => classifier' = classifier
     /\ lifespan_entered => detector' = detector
     /\ call'.op \in RequestHandlers =>
          (classifier' = classifier /\ detector' = detector)]_vars

\* C14 witness: both services have started and a request has been served
C14_Witness ==
  /\ classifier = SketchClassifier
  /\ detector = DualYOLODetector
  /\ call.op = "get_classes"
  /\ ret.status = 200
  /\ ret.body.classes = class_names

\* C20: request ids are unique: a request of /predict or /predict/base64
\* gets an id no earlier request has had, so it overwrites no log file of
\* another request.
C20_UniqueRequestIds ==
  (call.op \in PredictHandlers /\ locals.request_id # NoRequestId) =>
    /\ locals.overwritten = {}
    /\ \A n \in api_logs :
         n[1] = locals.request_id => n \in LogNames(locals.request_id, locals.files)

\* C21: POST /detect answers 503 exactly when the detector is not
\* initialized, and then process_base64_image is not called; 400 when
\* process_base64_image raises ValueError; 500 when it raises RuntimeError
\* or any other exception; and 200, with detections, image_width and
\* image_height, only when it returned.
C21_StatusMapping ==
  (call.op = "detect_objects") =>
    /\ (detector = NoDetector) <=> (ret.status = 503)
    /\ (detector = NoDetector) => ~locals.processed
    /\ (locals.processed /\ locals.raised # <<>>) =>
         ret.status = (IF locals.raised[1].type \in {"ValueError", "binascii.Error"}
                       THEN 400 ELSE 500)
    /\ (ret.status = 200) <=> (locals.processed /\ locals.raised = <<>>)
    /\ (ret.status = 200) =>
         DOMAIN ret.body = {"detections", "image_width", "image_height"}

\* C21 witness: the single detector, a text that decodes to no image: the
\* ValueError of decode_base64_image answered with 400
C21_Witness ==
  /\ call.op = "detect_objects"
  /\ detector = YOLODetector
  /\ call.image_base64 = TextOf(<<"!">>)
  /\ locals.raised[1].type = "ValueError"
  /\ ret.status = 400

\* C22: in dual mode the list returned holds the detections of the COCO
\* model in the order of its boxes, then those of the custom model in the
\* order of its boxes: its length is the sum of the two counts, nothing is
\* dropped, reordered or de-duplicated.
C22_Concatenated ==
  (call.op = "detect_objects" /\ detector = DualYOLODetector /\ ret.status = 200) =>
    LET coco == call.results[1].boxes
        custom == call.results[2].boxes
        detections == ret.body.detections
    IN  /\ Len(detections) = Len(coco) + Len(custom)
        /\ \A i \in 1..Len(coco) :
             detections[i].class = coco_model_names[coco[i] + 1]
        /\ \A j \in 1..Len(custom) :
             detections[Len(coco) + j].class = custom_model_names[custom[j] + 1]

\* C22 witness: two boxes of each model, the custom model's two of the same
\* class: four detections, the COCO model's first
C22_Witness ==
  /\ call.op = "detect_objects"
  /\ detector = DualYOLODetector
  /\ call.results[1].boxes = <<1, 0>>
  /\ call.results[2].boxes = <<0, 0>>
  /\ ret.status = 200
  /\ ret.body.detections = <<[class |-> "bicycle"], [class |-> "person"],
                             [class |-> "cube"], [class |-> "cube"]>>

\* C23: the two modes decode alike: for every text, with both models
\* giving their boxes, the status of /detect is the same whether the
\* detector is the single or the dual one.
C23_SameStatusInBothModes ==
  (call.op = "detect_objects" /\ detector # NoDetector
     /\ call.results[1].ok /\ call.results[2].ok) =>
    DetectResponse(process_base64_image(YOLODetector, call.image_base64,
                                        call.rgb, call.results)).status
      = DetectResponse(process_base64_image(DualYOLODetector, call.image_base64,
                                            call.rgb, call.results)).status

\* the positions of the given steps among the steps a handler took
StepsAt(steps, names) == {i \in 1..Len(steps) : steps[i] \in names}

\* C24: a /predict/base64 request that passes the model-loaded check writes
\* request_<id>_base64.txt before it decodes or preprocesses anything; by
\* the time it answers it has written exactly one of request_<id>.json and
\* request_<id>_ERROR.json, and it answers 200 exactly when that one is
\* request_<id>.json.
C24_LogThenOneOutcome ==
  (call.op = "predict_from_base64" /\ classifier # None) =>
    /\ StepsAt(locals.steps, {"base64.txt"}) = {1}
    /\ \A i \in StepsAt(locals.steps, {"b64decode", "preprocess", "predict"}) : i > 1
    /\ Cardinality(StepsAt(locals.steps, {"json", "ERROR.json"})) = 1
    /\ (ret.status = 200) <=> (StepsAt(locals.steps, {"json"}) # {})
    /\ ret.success <=> (StepsAt(locals.steps, {"json"}) # {})

\* C24 witness: a text that decodes to bytes that are no image: the text
\* and the bytes are saved, preprocessing fails, the error log is written
\* and the answer is 500
C24_Witness ==
  /\ call.op = "predict_from_base64"
  /\ call.image_base64 = TextOf(<<"!">>)
  /\ locals.files = <<"base64.txt", "png", "ERROR.json">>
  /\ ret.status = 500

\* C25: the log viewer reads everything the API writes: after any requests,
\* successful or failed, list_recent_requests and show_statistics go
\* through every file that matches request_*.json, the error logs among
\* them, and do not raise.
C25_ViewerReadsAll ==
  (call.op \in {"list_recent_requests", "show_statistics"}) =>
    /\ locals.read = {name \in api_logs : name[2] \in {"json", "ERROR.json"}}
    /\ ret.ok

\* C26: nothing is predicted without a loaded model: a startup in which
\* loading fails raises and leaves classifier None; while classifier is
\* None every /predict, /predict/base64 and /classes request answers 503,
\* and the two prediction handlers take no step before it: no upload read,
\* no file written, no preprocessing and no call of the model.
C26_NoModelNoPrediction ==
  [][/\ (call'.op = "startup" /\ ~ret'.ok) =>
          (ret'.exc # <<>> /\ classifier' = None)
     /\ (call'.op \in PredictHandlers \cup {"get_classes"} /\ classifier = None) =>
          (ret'.status = 503 /\ api_logs' = api_logs)
     /\ (call'.op \in PredictHandlers /\ classifier = None) =>
          /\ locals'.steps = <<>>
          /\ locals'.model_calls = <<>>
          /\ locals'.request_id = NoRequestId
     /\ (call'.op \in PredictHandlers /\ locals'.model_calls # <<>>) =>
          classifier # None]_vars

\* C26 witness: loading has failed at startup, and a /predict/base64
\* request with an image has been answered 503 with nothing written
C26_Witness ==
  /\ started
  /\ classifier = None
  /\ call.op = "predict_from_base64"
  /\ call.image_base64 = ImageText
  /\ ret.status = 503
  /\ locals.steps = <<>>
  /\ api_logs = {}

\* the base64 texts of a byte string: its encoding, bare and behind a
\* 'data:<mime>;base64,' prefix
EncodingsOf(b) ==
  {b64encode(b), TextOf(<<"data:", ";base64", ",">>) \o b64encode(b)}

\* two calls return the same tensor, or both fail
SameOutcome(x, y) == x.ok = y.ok /\ x.val = y.val

\* two responses carry the same status and the same predictions
SameAnswer(x, y) ==
  x.status = y.status /\ x.success = y.success /\ x.predictions = y.predictions

\* C27: the bytes path and the base64 path agree: for a byte string b and
\* its base64 encoding, bare or behind a data-URI prefix,
\* preprocess_image_from_base64 decodes the same image and returns the same
\* tensor as preprocess_image_from_bytes(b), or fails when it fails; and
\* for the same top_k and the same model outcome /predict on b and
\* /predict/base64 on the encoding answer with the same status and the
\* same predictions.
C27_BytesAndBase64Agree ==
  (call.op = "predict_from_file" /\ call.readable /\ classifier # None) =>
    \A s \in EncodingsOf(call.image_bytes) :
      /\ Base64ResizeOutcomes(s) = BytesResizeOutcomes(call.image_bytes)
      /\ \A rz \in BytesResizeOutcomes(call.image_bytes) :
           /\ SameOutcome(preprocess_image_from_bytes(call.image_bytes, rz),
                          preprocess_image_from_base64(s, rz))
           /\ \A p \in PathOutputs : \A order \in argsort(p) :
                SameAnswer(predict_from_file([readable |-> TRUE,
                                              image_bytes |-> call.image_bytes],
                                             call.top_k, rz, p, order).response,
                           predict_from_base64(s, call.top_k, rz, p, order).response)

\* C27 witness: an upload that is an image, answered 200 with a prediction;
\* its encoding is the text of the image
C27_Witness ==
  /\ call.op = "predict_from_file"
  /\ call.readable
  /\ b64encode(call.image_bytes) = ImageText
  /\ ret.status = 200
  /\ call.top_k = MaxN
  /\ Len(ret.predictions) = 2

\* C28: the label set is the same everywhere in the classifier service: the
\* class_names of the loaded classifier, Settings.CLASS_NAMES and the
\* classes of the uploaded model config are the same list in the same
\* order, of the length the config declares, so /classes lists the labels
\* of the config and an output index of such a model names one label.
C28_OneLabelSet ==
  (call.op = "get_classes" /\ classifier # None) =>
    /\ ret.body.classes = CLASS_NAMES
    /\ ret.body.classes = model_config.classes
    /\ ret.body.num_classes = model_config.num_classes
    /\ \A i \in 1..model_config.num_classes :
         classifier.class_names[i] = model_config.classes[i]

\* C29: the resize of preprocess_image_from_array loses no sample range:
\* for an input that is not 28x28 the 8-bit cast before the resize neither
\* floors nor wraps a sample, so an array of samples in [0, 1] with a
\* non-zero sample does not come back all zero, and a raster of one value
\* above 255 does not come back as that value modulo 256.
C29_ResizeKeepsRange ==
  (call.op = "array" /\ ret.ok /\ locals.resized) =>
    /\ (AlreadyNormalized(call.image_array)
          /\ \E i \in 1..Len(RasterOf(call.image_array)) : RasterOf(call.image_array)[i] > 0)
         => \E i \in 1..Len(ret.val.px) : ret.val.px[i] # 0
    /\ \A v \in Range(RasterOf(call.image_array)) :
         (v > PixMax * UNIT /\ IsConstant(RasterOf(call.image_array)))
           => \E i \in 1..Len(ret.val.px) :
                ret.val.px[i] # DivPixMax(AsFloat((v \div UNIT) % (PixMax + 1)))

====
